---- MODULE Spec2Model ----
(***************************************************************************)
(* PhishSense: feature extraction -> heuristic scoring -> score fusion ->  *)
(* threat level / reasons, as implemented by phishsense/detector.py and    *)
(* phishsense/feature_extractor.py, with the exit path of                  *)
(* phishsense_cli.py and the vector builder of phishsense/train_model.py.  *)
(*                                                                         *)
(* Specifications                                                          *)
(*  - Spec:       a detector serving any number of detect calls.           *)
(*  - LiveSpec:   Spec with fairness of the program's own steps.           *)
(*  - FusionSpec: score fusion and threat level over grids of inputs.      *)
(*  - RepeatSpec: two detections of one URL with unchanged probe answers.  *)
(*  - CliSpec:    one run of the command line, ending in an exit status.   *)
(*                                                                         *)
(* Conventions of the model                                                *)
(*  - A Python str is a sequence of one-character strings.                 *)
(*  - A score (a Python float in [0,1]) is an exact fixed-point number: the *)
(*    integer n stands for n / Scale.  The heuristic weights are written in *)
(*    hundredths (0.15 -> 15).  IEEE rounding is not modelled: where the    *)
(*    exact value lies on a threshold (0.7 * (2/7) + 0.3 = 0.5) the float   *)
(*    computed by the program can fall one rounding error below it.         *)
(*  - A classifier confidence is an integer number of hundredths.          *)
(*  - An optional value (None or v) is <<>> or <<v>>.                       *)
(***************************************************************************)
EXTENDS Integers, Sequences, FiniteSets, TLC

VARIABLES
    pc,                 \* position of the caller / of detect
    artifact,           \* what is stored at model_path (environment)
    whois_available,    \* WHOIS_AVAILABLE (module import succeeded)
    model,              \* self.model
    url,                \* argument of the running detect call
    w,                  \* local of _get_domain_age: what whois.whois returned
    domain_age,         \* features['domain_age'] once the probe returned
    has_valid_ssl,      \* features['has_valid_ssl'] once the probe returned
    features,           \* dict returned by extract_features
    heuristic_score,    \* local of detect
    ml_score,           \* local of detect
    ml_confidence,      \* local of detect
    final_score,        \* local of detect
    threat_level,       \* local of detect
    result,             \* dict returned by detect
    error,              \* exception that left detect, if any
    prev,               \* caller: the first call's result and probe answers
    args,               \* command line: the parsed --json / --verbose flags
    exit_code           \* command line: the status the process exited with

vars == <<pc, artifact, whois_available, model, url, w, domain_age, has_valid_ssl,
          features, heuristic_score, ml_score, ml_confidence, final_score,
          threat_level, result, error, prev, args, exit_code>>

-----------------------------------------------------------------------------
(* Bounds and scales *)

Scale == 28 * 1000      \* score unit: n stands for n/Scale
ConfScale == 10 * 10    \* confidence unit: n stands for n/ConfScale
MaxAge == 31            \* largest registration age (days) a lookup reports
MaxPad == 58            \* longest padding of the long-URL family

None == <<>>
Some(v) == <<v>>

Min(a, b) == IF a <= b THEN a ELSE b
Max(a, b) == IF a >= b THEN a ELSE b

-----------------------------------------------------------------------------
(* Python str operations used by the extractor *)

UpperChars == <<"A","B","C","D","E","F","G","H","I","J","K","L","M",
                "N","O","P","Q","R","S","T","U","V","W","X","Y","Z">>
LowerChars == <<"a","b","c","d","e","f","g","h","i","j","k","l","m",
                "n","o","p","q","r","s","t","u","v","w","x","y","z">>
Digits == <<"0","1","2","3","4","5","6","7","8","9">>

Range(s) == {s[i] : i \in DOMAIN s}

LowerChar(c) ==
    IF \E i \in DOMAIN UpperChars : UpperChars[i] = c
    THEN LowerChars[CHOOSE i \in DOMAIN UpperChars : UpperChars[i] = c]
    ELSE c

\* str.lower()
lower(s) == [i \in DOMAIN s |-> LowerChar(s[i])]

\* str.count(c) for a single character c
count(s, c) == Cardinality({i \in DOMAIN s : s[i] = c})

\* str.find(c, start) for a single character, 1-based; 0 when absent
find(s, c, start) ==
    IF \E i \in start..Len(s) : s[i] = c
    THEN CHOOSE i \in start..Len(s) : s[i] = c /\ \A j \in start..(i-1) : s[j] # c
    ELSE 0

\* str.rfind(c), 1-based; 0 when absent
rfind(s, c) ==
    IF \E i \in DOMAIN s : s[i] = c
    THEN CHOOSE i \in DOMAIN s : s[i] = c /\ \A j \in (i+1)..Len(s) : s[j] # c
    ELSE 0

\* needle in hay (substring test)
contains(hay, needle) ==
    \E i \in 0..(Len(hay) - Len(needle)) :
        \A j \in 1..Len(needle) : hay[i + j] = needle[j]

\* str.startswith / str.endswith
startswith(s, p) == Len(p) <= Len(s) /\ SubSeq(s, 1, Len(p)) = p
endswith(s, p) == Len(p) <= Len(s) /\ SubSeq(s, Len(s) - Len(p) + 1, Len(s)) = p

\* s[i:] and s[:i] with 1-based cut position: Before excludes position i
From(s, i) == SubSeq(s, i, Len(s))
Before(s, i) == SubSeq(s, 1, i - 1)

\* c * n
Rep(c, n) == [i \in 1..n |-> c]

\* str.split(sep) for a single-character separator
RECURSIVE split(_, _)
SplitFrom(s, sep, i) ==
    IF i = 0 THEN <<s>>
    ELSE <<Before(s, i)>> \o split(From(s, i + 1), sep)

split(s, sep) == SplitFrom(s, sep, find(s, sep, 1))

-----------------------------------------------------------------------------
(* urllib.parse.urlparse, as the extractor calls it.  The URLs of the model *)
(* contain no whitespace or control characters, so the stripping that       *)
(* urlsplit does first leaves them unchanged; bracketed hosts of the model  *)
(* are either well-formed IPv6 literals or have an unmatched bracket.       *)

S_http == <<"h","t","t","p">>
S_https == <<"h","t","t","p","s">>
S_ftp == <<"f","t","p">>

SchemeChars == Range(UpperChars) \cup Range(LowerChars) \cup Range(Digits)
                 \cup {"+", "-", "."}
IsAlpha(c) == c \in Range(UpperChars) \cup Range(LowerChars)

\* urllib.parse.uses_params, restricted to the schemes of the model
UsesParams == {<<>>, S_http, S_https, S_ftp}

\* first position >= start of any of the characters in cs; Len(s)+1 if none
FindAny(s, cs, start) ==
    IF \E i \in start..Len(s) : s[i] \in cs
    THEN CHOOSE i \in start..Len(s) : s[i] \in cs /\ \A j \in start..(i-1) : s[j] \notin cs
    ELSE Len(s) + 1

\* s.split(c, 1) at the position i that find returned: <<head, tail>>
SplitAt(s, i) == IF i = 0 THEN <<s, <<>> >> ELSE <<Before(s, i), From(s, i + 1)>>

\* urllib.parse._splitparams: <<path, params>>
SplitParams(u) ==
    SplitAt(u, IF "/" \in Range(u) THEN find(u, ";", rfind(u, "/")) ELSE find(u, ";", 1))

\* urlsplit, scheme: <<scheme, rest>>, i being url.find(':')
SplitScheme(u, i) ==
    IF /\ i > 1
       /\ IsAlpha(u[1])
       /\ \A j \in 1..(i-1) : u[j] \in SchemeChars
    THEN <<lower(Before(u, i)), From(u, i + 1)>>
    ELSE << <<>>, u>>

\* urlsplit, netloc: <<netloc, rest>>, delim being the end of the netloc
SplitNetloc(r, delim) ==
    IF Len(r) >= 2 /\ r[1] = "/" /\ r[2] = "/"
    THEN <<SubSeq(r, 3, delim - 1), From(r, delim)>>
    ELSE << <<>>, r>>

InvalidBrackets(netloc) ==
    \/ ("[" \in Range(netloc) /\ "]" \notin Range(netloc))
    \/ ("]" \in Range(netloc) /\ "[" \notin Range(netloc))

UrlResult(scheme, netloc, pp, query, fragment) ==
    [raises |-> FALSE, scheme |-> scheme, netloc |-> netloc, path |-> pp[1],
     params |-> pp[2], query |-> query, fragment |-> fragment]

\* urlparse: the ';' parameters of the last path segment are split off
UrlParams(scheme, netloc, pq, fragment) ==
    UrlResult(scheme, netloc,
              IF scheme \in UsesParams /\ ";" \in Range(pq[1])
              THEN SplitParams(pq[1]) ELSE <<pq[1], <<>> >>,
              pq[2], fragment)

UrlQuery(scheme, netloc, rf) ==
    UrlParams(scheme, netloc, SplitAt(rf[1], find(rf[1], "?", 1)), rf[2])

\* ValueError("Invalid IPv6 URL") on a mismatched bracket in the netloc
UrlFragment(scheme, nr) ==
    IF InvalidBrackets(nr[1])
    THEN [raises |-> TRUE]
    ELSE UrlQuery(scheme, nr[1], SplitAt(nr[2], find(nr[2], "#", 1)))

UrlNetloc(sr) ==
    UrlFragment(sr[1], SplitNetloc(sr[2], FindAny(sr[2], {"/", "?", "#"}, 3)))

urlparse(u) == UrlNetloc(SplitScheme(u, find(u, ":", 1)))

\* len(parse_qs(query)): number of distinct keys among the '&'-separated
\* fields that have an '=' and a non-empty value (blank values are dropped;
\* the queries of the model contain no percent-escapes or '+' in keys)
HasValue(f, e) == e # 0 /\ Len(f) > e

FieldKeys(fields) ==
    {Before(fields[k], find(fields[k], "=", 1)) :
        k \in {k \in DOMAIN fields : HasValue(fields[k], find(fields[k], "=", 1))}}

QueryKeys(query) == FieldKeys(split(query, "&"))

num_params(query) == Cardinality(QueryKeys(query))

-----------------------------------------------------------------------------
(* FeatureExtractor: configuration tables *)

suspicious_keywords == <<
    <<"s","e","c","u","r","e">>,
    <<"v","e","r","i","f","y">>,
    <<"a","c","c","o","u","n","t">>,
    <<"u","p","d","a","t","e">>,
    <<"c","o","n","f","i","r","m">>,
    <<"l","o","g","i","n">>,
    <<"s","i","g","n","i","n">>,
    <<"b","a","n","k","i","n","g">>,
    <<"e","b","a","y","i","s","a","p","i">>,
    <<"p","a","y","p","a","l">>,
    <<"w","e","b","s","c","r">>,
    <<"s","e","c","u","r","e">>,
    <<"a","c","c","o","u","n","t">>,
    <<"u","p","d","a","t","e">>,
    <<"c","o","n","f","i","r","m">>,
    <<"s","u","s","p","e","n","d">>,
    <<"r","e","s","t","r","i","c","t">>,
    <<"l","i","m","i","t","e","d">>,
    <<"u","n","u","s","u","a","l">>,
    <<"a","c","t","i","v","i","t","y">>,
    <<"v","e","r","i","f","y">>,
    <<"v","a","l","i","d","a","t","e">>,
    <<"u","r","g","e","n","t">>,
    <<"i","m","m","e","d","i","a","t","e">> >>

suspicious_tlds == <<
    <<".","t","k">>,
    <<".","m","l">>,
    <<".","g","a">>,
    <<".","c","f">>,
    <<".","g","q">>,
    <<".","x","y","z">>,
    <<".","t","o","p">> >>

shortening_services == <<
    <<"b","i","t",".","l","y">>,
    <<"t","i","n","y","u","r","l",".","c","o","m">>,
    <<"g","o","o",".","g","l">>,
    <<"o","w",".","l","y">>,
    <<"t",".","c","o">>,
    <<"i","s",".","g","d">>,
    <<"b","u","f","f",".","l","y">>,
    <<"a","d","f",".","l","y">>,
    <<"s","h","o","r","t","e",".","s","t">>,
    <<"b","c",".","v","c">>,
    <<"v",".","g","d">>,
    <<"v","z","t","u","r","l",".","c","o","m">> >>

common_domains == <<
    <<"g","o","o","g","l","e">>,
    <<"m","i","c","r","o","s","o","f","t">>,
    <<"a","p","p","l","e">>,
    <<"a","m","a","z","o","n">>,
    <<"f","a","c","e","b","o","o","k">>,
    <<"p","a","y","p","a","l">>,
    <<"e","b","a","y">>,
    <<"b","a","n","k">>,
    <<"w","e","l","l","s","f","a","r","g","o">>,
    <<"c","h","a","s","e">> >>

S_redirect == <<"r","e","d","i","r","e","c","t">>
S_url_eq == <<"u","r","l","=">>

-----------------------------------------------------------------------------
(* socket.inet_aton (C library): one to four '.'-separated numerals, each  *)
(* decimal, octal (leading 0) or hexadecimal (leading 0x); all but the last *)
(* at most 255, the last filling the remaining bytes.  A 32-bit value is    *)
(* kept as <<high 16 bits, low 16 bits>>, the high half saturating at 2^16. *)

HexChars == <<"0","1","2","3","4","5","6","7","8","9","a","b","c","d","e","f">>
DigitVal(c) == (CHOOSE i \in DOMAIN HexChars : HexChars[i] = LowerChar(c)) - 1
IsDigitIn(c, base) ==
    /\ \E i \in DOMAIN HexChars : HexChars[i] = LowerChar(c)
    /\ DigitVal(c) < base

Half == 256 * 256

\* one more digit d onto <<hi, lo>>
Shift(acc, base, d) ==
    <<Min(acc[1] * base + ((acc[2] * base + d) \div Half), Half),
      (acc[2] * base + d) % Half>>

RECURSIVE NumVal(_, _, _)
NumVal(s, base, acc) ==
    IF s = <<>> THEN acc
    ELSE NumVal(Tail(s), base, Shift(acc, base, DigitVal(Head(s))))

IsHex(p) == Len(p) >= 2 /\ p[1] = "0" /\ LowerChar(p[2]) = "x"
Base(p) == IF IsHex(p) THEN 16 ELSE IF Len(p) >= 1 /\ p[1] = "0" THEN 8 ELSE 10

NumeralOf(body, base) ==
    IF body # <<>> /\ \A i \in DOMAIN body : IsDigitIn(body[i], base)
    THEN <<TRUE, NumVal(body, base, <<0, 0>>)>>
    ELSE <<FALSE, <<0, 0>> >>

\* <<valid, value>> of one numeral as strtoul(..., 0) followed by '.' or end
Numeral(p) == NumeralOf(IF IsHex(p) THEN From(p, 3) ELSE p, Base(p))

LeqByte(v) == v[1] = 0 /\ v[2] <= 255

InetParts(nums) ==
    /\ Len(nums) <= 4
    /\ \A k \in DOMAIN nums : nums[k][1]
    /\ \A k \in 1..(Len(nums) - 1) : LeqByte(nums[k][2])
    /\ CASE Len(nums) = 1 -> nums[1][2][1] < Half
         [] Len(nums) = 2 -> nums[2][2][1] <= 255
         [] Len(nums) = 3 -> nums[3][2][1] = 0
         [] OTHER -> LeqByte(nums[Len(nums)][2])

NumeralsOf(parts) == [k \in DOMAIN parts |-> Numeral(parts[k])]

inet_aton(s) == InetParts(NumeralsOf(split(s, ".")))

\* str.replace(c, '') for a single character
remove(s, c) == SelectSeq(s, LAMBDA x : x # c)

-----------------------------------------------------------------------------
(* FeatureExtractor: helpers *)

InSubdomain(domain_lower) ==
    IF \E k \in DOMAIN common_domains :
          contains(domain_lower, common_domains[k]) /\ domain_lower # common_domains[k]
    THEN 1 ELSE 0

_check_domain_in_subdomain(domain) == InSubdomain(lower(domain))

_has_ip_address(domain) == inet_aton(remove(remove(domain, "["), "]"))

ContainsService(domain_lower) ==
    \E k \in DOMAIN shortening_services :
        contains(domain_lower, shortening_services[k])

_is_shortened_url(domain) == ContainsService(lower(domain))

_has_suspicious_tld(domain) ==
    \E k \in DOMAIN suspicious_tlds : endswith(domain, suspicious_tlds[k])

\* variant: a keyword listed twice is counted once
_count_suspicious_keywords_distinct(u) ==
    Cardinality({suspicious_keywords[k] : k \in
        {j \in DOMAIN suspicious_keywords : contains(u, suspicious_keywords[j])}})

\* one count per list entry, duplicates of the list included
_count_suspicious_keywords(u) ==
    Cardinality({k \in DOMAIN suspicious_keywords : contains(u, suspicious_keywords[k])})

\* re.search(r'(.)\1{3,}', domain) or more than three digit characters
_check_typosquatting(domain) ==
    IF \E i \in 1..(Len(domain) - 3) :
          domain[i+1] = domain[i] /\ domain[i+2] = domain[i] /\ domain[i+3] = domain[i]
    THEN 1
    ELSE IF Cardinality({i \in DOMAIN domain : domain[i] \in Range(Digits)}) > 3
         THEN 1 ELSE 0

-----------------------------------------------------------------------------
(* The URLs submitted to detect *)

\* http://192.168.1.1/login?verify=1
U_ip_login == <<"h","t","t","p",":","/","/","1","9","2",".","1","6","8",".","1",".","1","/","l","o","g","i","n","?","v","e","r","i","f","y","=","1">>
\* https://www.google.com/
U_google == <<"h","t","t","p","s",":","/","/","w","w","w",".","g","o","o","g","l","e",".","c","o","m","/">>
\* https://example.com/
U_plain_https == <<"h","t","t","p","s",":","/","/","e","x","a","m","p","l","e",".","c","o","m","/">>
\* http://example.com/
U_plain_http == <<"h","t","t","p",":","/","/","e","x","a","m","p","l","e",".","c","o","m","/">>
\* http://[::1
U_unterminated == <<"h","t","t","p",":","/","/","[",":",":","1">>
\* https://[::1]:8443/x
U_ipv6 == <<"h","t","t","p","s",":","/","/","[",":",":","1","]",":","8","4","4","3","/","x">>
\* https://bit.ly/abc
U_bitly == <<"h","t","t","p","s",":","/","/","b","i","t",".","l","y","/","a","b","c">>
\* https://microsoft.com/
U_microsoft == <<"h","t","t","p","s",":","/","/","m","i","c","r","o","s","o","f","t",".","c","o","m","/">>
\* https://example.net/%41%42%43%44
U_percent == <<"h","t","t","p","s",":","/","/","e","x","a","m","p","l","e",".","n","e","t","/","%","4","1","%","4","2","%","4","3","%","4","4">>
\* http://paypal.secure-login.tk/account/update?confirm=1
U_paypal_tk == <<"h","t","t","p",":","/","/","p","a","y","p","a","l",".","s","e","c","u","r","e","-","l","o","g","i","n",".","t","k","/","a","c","c","o","u","n","t","/","u","p","d","a","t","e","?","c","o","n","f","i","r","m","=","1">>
\* HTTPS://Example.COM/Path;p?redirect=x&url=y&a=#frag
U_mixed_case == <<"H","T","T","P","S",":","/","/","E","x","a","m","p","l","e",".","C","O","M","/","P","a","t","h",";","p","?","r","e","d","i","r","e","c","t","=","x","&","u","r","l","=","y","&","a","=","#","f","r","a","g">>
\* example.com/login
U_no_scheme == <<"e","x","a","m","p","l","e",".","c","o","m","/","l","o","g","i","n">>
\* https://example.com:8080/
U_port == <<"h","t","t","p","s",":","/","/","e","x","a","m","p","l","e",".","c","o","m",":","8","0","8","0","/">>
\* https://google/
U_brand_only == <<"h","t","t","p","s",":","/","/","g","o","o","g","l","e","/">>
\* (the empty string)
U_empty == <<>>
\* https://aaaa.example.xyz/
U_repeat_xyz == <<"h","t","t","p","s",":","/","/","a","a","a","a",".","e","x","a","m","p","l","e",".","x","y","z","/">>
\* ftp://files.example.com/pub
U_ftp == <<"f","t","p",":","/","/","f","i","l","e","s",".","e","x","a","m","p","l","e",".","c","o","m","/","p","u","b">>
\* https://EXAMPLE.TK/
U_upper_tld == <<"h","t","t","p","s",":","/","/","E","X","A","M","P","L","E",".","T","K","/">>
\* http://0x7f.1/
U_hex_ip == <<"h","t","t","p",":","/","/","0","x","7","f",".","1","/">>
\* https://example.com/?a=1&a=2&b=3
U_query_keys == <<"h","t","t","p","s",":","/","/","e","x","a","m","p","l","e",".","c","o","m","/","?","a","=","1","&","a","=","2","&","b","=","3">>
\* https://user@example.com/#a#b
U_userinfo == <<"h","t","t","p","s",":","/","/","u","s","e","r","@","e","x","a","m","p","l","e",".","c","o","m","/","#","a","#","b">>

\* http://paypal1234.bit.ly.secure-login.tk/account/update?confirm=%%%%&verify=urgent-action
U_kitchen_sink == <<"h","t","t","p",":","/","/","p","a","y","p","a","l","1","2","3","4",".","b","i","t",".","l","y",".","s","e","c","u","r","e","-","l","o","g","i","n",".","t","k","/","a","c","c","o","u","n","t","/","u","p","d","a","t","e","?","c","o","n","f","i","r","m","=","%","%","%","%","&","v","e","r","i","f","y","=","u","r","g","e","n","t","-","a","c","t","i","o","n">>

\* http://example.org/ followed by n times 'b': url_length is 19 + n
S_pad_base == <<"h","t","t","p",":","/","/","e","x","a","m","p","l","e",".","o","r","g","/">>
U_long(n) == S_pad_base \o Rep("b", n)

Urls == {U_ip_login, U_google, U_plain_https, U_plain_http,
         U_unterminated, U_ipv6, U_bitly, U_microsoft, U_percent,
         U_paypal_tk, U_mixed_case, U_no_scheme, U_port,
         U_brand_only, U_empty, U_repeat_xyz, U_ftp, U_upper_tld,
         U_hex_ip, U_query_keys, U_userinfo, U_kitchen_sink}
          \cup {U_long(n) : n \in 56..MaxPad}

-----------------------------------------------------------------------------
(* FeatureExtractor.extract_features *)

Ratio(n, d) == <<n, d>>

HasRedirect(query_lower) ==
    IF contains(query_lower, S_redirect) \/ contains(query_lower, S_url_eq)
    THEN 1 ELSE 0

\* the part of extract_features that runs before the first probe is called;
\* the first urlparse call raises ValueError on a mismatched bracket
LexicalOf(u, parsed, domain, query) ==
        [raises |-> FALSE,
         domain |-> domain,
         url_length |-> Len(u),
         hostname_length |-> Len(parsed.netloc),
         path_length |-> Len(parsed.path),
         query_length |-> Len(parsed.query),
         num_dots |-> count(u, "."),
         num_hyphens |-> count(u, "-"),
         num_underscores |-> count(u, "_"),
         num_slashes |-> count(u, "/"),
         num_question_marks |-> count(u, "?"),
         num_equals |-> count(u, "="),
         num_ampersands |-> count(u, "&"),
         num_percent |-> count(u, "%"),
         num_at_symbols |-> count(u, "@"),
         num_exclamation |-> count(u, "!"),
         num_spaces |-> count(u, " "),
         num_tildes |-> count(u, "~"),
         num_commas |-> count(u, ","),
         num_plus |-> count(u, "+"),
         num_asterisks |-> count(u, "*"),
         num_hashes |-> count(u, "#"),
         num_dollar |-> count(u, "$"),
         num_colons |-> count(u, ":"),
         has_https |-> IF parsed.scheme = S_https THEN 1 ELSE 0,
         has_http |-> IF parsed.scheme = S_http THEN 1 ELSE 0,
         has_ftp |-> IF parsed.scheme = S_ftp THEN 1 ELSE 0,
         domain_in_subdomain |-> _check_domain_in_subdomain(domain),
         has_ip |-> IF _has_ip_address(domain) THEN 1 ELSE 0,
         is_shortened |-> IF _is_shortened_url(domain) THEN 1 ELSE 0,
         suspicious_tld |-> IF _has_suspicious_tld(domain) THEN 1 ELSE 0,
         suspicious_keywords |-> _count_suspicious_keywords(lower(u)),
         has_port |-> IF ":" \in Range(domain) /\ ~startswith(domain, <<"[">>)
                      THEN 1 ELSE 0,
         num_params |-> num_params(query),
         has_redirect |-> HasRedirect(lower(query)),
         is_typosquatting |-> _check_typosquatting(domain)]

LexicalParsed(u, parsed) ==
    IF parsed.raises THEN [raises |-> TRUE]
    ELSE LexicalOf(u, parsed, parsed.netloc, parsed.query)

Lexical(u) == LexicalParsed(u, urlparse(u))

\* computed once per URL
LexTable == [u \in Urls |-> Lexical(u)]

FeatureNames ==
    {"url_length", "hostname_length", "path_length", "query_length",
     "num_dots", "num_hyphens", "num_underscores", "num_slashes",
     "num_question_marks", "num_equals", "num_ampersands", "num_percent",
     "num_at_symbols", "num_exclamation", "num_spaces", "num_tildes",
     "num_commas", "num_plus", "num_asterisks", "num_hashes", "num_dollar",
     "num_colons", "has_https", "has_http", "has_ftp", "domain_in_subdomain",
     "has_ip", "is_shortened", "suspicious_tld", "suspicious_keywords",
     "has_port", "num_params", "has_redirect", "domain_age", "has_valid_ssl",
     "dns_record_count", "is_typosquatting", "dots_to_length",
     "hyphens_to_length"}

MergeFeatures(lex, probes, ratios) ==
    [k \in FeatureNames |->
        IF k \in DOMAIN probes THEN probes[k]
        ELSE IF k \in DOMAIN ratios THEN ratios[k]
        ELSE lex[k]]

\* the two ratio features (lines 123-128)
Ratios(lex) ==
    IF lex.url_length > 0
    THEN [dots_to_length |-> Ratio(lex.num_dots, lex.url_length),
          hyphens_to_length |-> Ratio(lex.num_hyphens, lex.url_length)]
    ELSE [dots_to_length |-> Ratio(0, 1), hyphens_to_length |-> Ratio(0, 1)]

\* the dict extract_features returns, given what the three probes returned
extract_features(u, age, ssl, dns) ==
    MergeFeatures(LexTable[u],
                  [domain_age |-> age, has_valid_ssl |-> ssl, dns_record_count |-> dns],
                  Ratios(LexTable[u]))

-----------------------------------------------------------------------------
(* FeatureExtractor: the three probes *)

\* what whois.whois(domain).creation_date turns out to be: the call raises,
\* a falsy value, a datetime (as its age in days), or a list whose first
\* entry is None or a datetime
AgeSamples == {-1, 0, 1, 29, 30, MaxAge}
WhoisAnswers ==
    {[kind |-> "raises", first |-> None], [kind |-> "falsy", first |-> None]}
      \cup [kind : {"datetime"}, first : {Some(a) : a \in AgeSamples}]
      \cup [kind : {"list"}, first : {None} \cup {Some(a) : a \in AgeSamples}]

\* variant: the age returned without the `if age > 0` guard
_get_domain_age_unguarded(answer) ==
    IF answer.kind \in {"raises", "falsy"} THEN 0
    ELSE IF answer.first # None THEN answer.first[1] ELSE 0

\* _get_domain_age once the lookup has returned (WHOIS_AVAILABLE holds)
_get_domain_age(answer) ==
    IF answer.kind \in {"raises", "falsy"} THEN 0
    ELSE IF answer.first # None
         THEN (IF answer.first[1] > 0 THEN answer.first[1] ELSE 0)
         ELSE 0

\* _check_ssl_certificate: 1 when connect and handshake succeeded, 0 on any
\* exception (the 3 s socket timeout included)
_check_ssl_certificate(handshake_ok) == IF handshake_ok THEN 1 ELSE 0

\* _get_dns_record_count: 1 when gethostbyname returned, 0 when it raised
_get_dns_record_count(resolved) == IF resolved THEN 1 ELSE 0

-----------------------------------------------------------------------------
(* PhishDetector: pure parts *)

Truthy(v) == v # 0

\* variant: max_score grows only inside the branches that fire
RECURSIVE SumWeights_fired(_, _)
SumWeights_fired(table, onlyFired) ==
    IF table = <<>> THEN 0
    ELSE (IF ~Head(table).fires THEN 0 ELSE Head(table).weight)
           + SumWeights_fired(Tail(table), onlyFired)

\* score (onlyFired) and max_score (every entry) of _heuristic_analysis
RECURSIVE SumWeights(_, _)
SumWeights(table, onlyFired) ==
    IF table = <<>> THEN 0
    ELSE (IF onlyFired /\ ~Head(table).fires THEN 0 ELSE Head(table).weight)
           + SumWeights(Tail(table), onlyFired)

\* variant: the certificate predicate without its `has_https and`
HeuristicTable_any_scheme(f) == <<
    [id |-> "url_length",          weight |-> 10, fires |-> f.url_length > 75],
    [id |-> "suspicious_tld",      weight |-> 15, fires |-> Truthy(f.suspicious_tld)],
    [id |-> "has_ip",              weight |-> 20, fires |-> Truthy(f.has_ip)],
    [id |-> "is_shortened",        weight |-> 10, fires |-> Truthy(f.is_shortened)],
    [id |-> "suspicious_keywords", weight |-> 15, fires |-> f.suspicious_keywords > 2],
    [id |-> "domain_in_subdomain", weight |-> 15, fires |-> Truthy(f.domain_in_subdomain)],
    [id |-> "no_https",            weight |-> 10, fires |-> ~Truthy(f.has_https)],
    [id |-> "invalid_ssl",         weight |-> 15, fires |-> ~Truthy(f.has_valid_ssl)],
    [id |-> "new_domain",          weight |-> 10,
        fires |-> f.domain_age > 0 /\ f.domain_age < 30],
    [id |-> "special_chars",       weight |-> 10,
        fires |-> (f.num_percent + f.num_at_symbols + f.num_hashes) > 3],
    [id |-> "is_typosquatting",    weight |-> 10, fires |-> Truthy(f.is_typosquatting)] >>

\* the eleven weighted predicates of _heuristic_analysis, in source order;
\* weights in hundredths
HeuristicTable(f) == <<
    [id |-> "url_length",          weight |-> 10, fires |-> f.url_length > 75],
    [id |-> "suspicious_tld",      weight |-> 15, fires |-> Truthy(f.suspicious_tld)],
    [id |-> "has_ip",              weight |-> 20, fires |-> Truthy(f.has_ip)],
    [id |-> "is_shortened",        weight |-> 10, fires |-> Truthy(f.is_shortened)],
    [id |-> "suspicious_keywords", weight |-> 15, fires |-> f.suspicious_keywords > 2],
    [id |-> "domain_in_subdomain", weight |-> 15, fires |-> Truthy(f.domain_in_subdomain)],
    [id |-> "no_https",            weight |-> 10, fires |-> ~Truthy(f.has_https)],
    [id |-> "invalid_ssl",         weight |-> 15,
        fires |-> Truthy(f.has_https) /\ ~Truthy(f.has_valid_ssl)],
    [id |-> "new_domain",          weight |-> 10,
        fires |-> f.domain_age > 0 /\ f.domain_age < 30],
    [id |-> "special_chars",       weight |-> 10,
        fires |-> (f.num_percent + f.num_at_symbols + f.num_hashes) > 3],
    [id |-> "is_typosquatting",    weight |-> 10, fires |-> Truthy(f.is_typosquatting)] >>

\* variant: the accumulated score returned without dividing by max_score
Normalize_raw(score, max_score) ==
    IF max_score > 0 THEN (score * Scale) \div 100 ELSE 0

Normalize(score, max_score) ==
    IF max_score > 0 THEN Min((score * Scale) \div max_score, Scale) ELSE 0

\* variant: the accumulator lives on the detector and is not cleared, so a
\* call starts from what the call before it left
_heuristic_analysis_accumulating(f, u) ==
    LET table == HeuristicTable(f)
        score == SumWeights(table, TRUE)
        max_score == SumWeights(table, FALSE)
        left == IF prev = None THEN 0 ELSE prev[1].result.heuristic_score
    IN  Min(Normalize(score, max_score) + left, Scale)

\* score and max_score are locals that start at 0.0 on every call
_heuristic_analysis(f, u) ==
    LET table == HeuristicTable(f)
        score == SumWeights(table, TRUE)
        max_score == SumWeights(table, FALSE)
    IN  Normalize(score, max_score)

\* variant: two neighbouring names of the detector's list exchanged
feature_order_swapped == <<
    "url_length", "hostname_length", "path_length", "query_length",
    "num_dots", "num_hyphens", "num_underscores", "num_slashes",
    "num_question_marks", "num_equals", "num_ampersands", "num_percent",
    "num_at_symbols", "has_http", "has_https", "domain_in_subdomain",
    "has_ip", "is_shortened", "suspicious_tld", "suspicious_keywords",
    "has_port", "num_params", "has_redirect", "domain_age",
    "has_valid_ssl", "dns_record_count", "is_typosquatting",
    "dots_to_length", "hyphens_to_length" >>

\* the list local to PhishDetector._features_to_vector
feature_order == <<
    "url_length", "hostname_length", "path_length", "query_length",
    "num_dots", "num_hyphens", "num_underscores", "num_slashes",
    "num_question_marks", "num_equals", "num_ampersands", "num_percent",
    "num_at_symbols", "has_https", "has_http", "domain_in_subdomain",
    "has_ip", "is_shortened", "suspicious_tld", "suspicious_keywords",
    "has_port", "num_params", "has_redirect", "domain_age",
    "has_valid_ssl", "dns_record_count", "is_typosquatting",
    "dots_to_length", "hyphens_to_length" >>

\* features.get(name, 0) for each name of feature_order
_features_to_vector(f) ==
    [i \in DOMAIN feature_order |->
        IF feature_order[i] \in DOMAIN f THEN f[feature_order[i]] ELSE 0]

\* train_model.py: the list local to feature_extractor_to_vector
train_feature_order == <<
    "url_length", "hostname_length", "path_length", "query_length",
    "num_dots", "num_hyphens", "num_underscores", "num_slashes",
    "num_question_marks", "num_equals", "num_ampersands", "num_percent",
    "num_at_symbols", "has_https", "has_http", "domain_in_subdomain",
    "has_ip", "is_shortened", "suspicious_tld", "suspicious_keywords",
    "has_port", "num_params", "has_redirect", "domain_age",
    "has_valid_ssl", "dns_record_count", "is_typosquatting",
    "dots_to_length", "hyphens_to_length" >>

\* train_model.py: features.get(name, 0) for each name of its list
feature_extractor_to_vector(f) ==
    [i \in DOMAIN train_feature_order |->
        IF train_feature_order[i] \in DOMAIN f THEN f[train_feature_order[i]] ELSE 0]

\* variant: the classifier share multiplies 1.0 whatever the label is
Blend_label(h, share, ml) == (share[1] * h) \div 10 + (share[2] * Scale) \div 10

\* the three confidence tiers: <<heuristic share, classifier share>> in tenths
Blend(h, share, ml) ==
    (share[1] * h) \div 10 + (share[2] * (IF ml = 1 THEN Scale ELSE 0)) \div 10

\* variant: the high-confidence tier made inclusive at 0.7
_combine_scores_tier(h, ml, conf) ==
    LET combined ==
          IF ml # None /\ conf # None
          THEN IF conf[1] * 10 >= 7 * ConfScale THEN Blend(h, <<3, 7>>, ml[1])
               ELSE IF conf[1] * 10 > 5 * ConfScale THEN Blend(h, <<5, 5>>, ml[1])
               ELSE Blend(h, <<7, 3>>, ml[1])
          ELSE h
    IN  Min(combined, Scale)

_combine_scores(h, ml, conf) ==
    LET combined ==
          IF ml # None /\ conf # None
          THEN IF conf[1] * 10 > 7 * ConfScale THEN Blend(h, <<3, 7>>, ml[1])
               ELSE IF conf[1] * 10 > 5 * ConfScale THEN Blend(h, <<5, 5>>, ml[1])
               ELSE Blend(h, <<7, 3>>, ml[1])
          ELSE h
    IN  Min(combined, Scale)

\* variant: the CRITICAL boundary made exclusive
_determine_threat_level_excl(score) ==
    IF score * 100 > 70 * Scale THEN "CRITICAL"
    ELSE IF score * 100 >= 50 * Scale THEN "HIGH"
    ELSE IF score * 100 >= 30 * Scale THEN "MEDIUM"
    ELSE IF score * 100 >= 15 * Scale THEN "LOW"
    ELSE "SAFE"

_determine_threat_level(score) ==
    IF score * 100 >= 70 * Scale THEN "CRITICAL"
    ELSE IF score * 100 >= 50 * Scale THEN "HIGH"
    ELSE IF score * 100 >= 30 * Scale THEN "MEDIUM"
    ELSE IF score * 100 >= 15 * Scale THEN "LOW"
    ELSE "SAFE"

\* variant: the flag threshold made inclusive
IsPhishing_inclusive(score) == score * 10 >= 5 * Scale

IsPhishing(score) == score * 10 > 5 * Scale

NoIndicators == "No obvious phishing indicators detected"

Reason(text) == [text |-> text, arg |-> None]
ReasonWith(text, n) == [text |-> text, arg |-> Some(n)]

\* variant: the fallback message is given only to URLs that are not flagged
_get_detection_reasons_scored(f, u, score) ==
    LET opt(c, r) == IF c THEN <<r>> ELSE <<>>
        reasons ==
             opt(Truthy(f.suspicious_tld), Reason("Uses suspicious top-level domain"))
          \o opt(Truthy(f.has_ip), Reason("Domain is an IP address"))
          \o opt(Truthy(f.is_shortened), Reason("Uses URL shortening service"))
          \o opt(Truthy(f.domain_in_subdomain),
                 Reason("Legitimate domain appears in subdomain (possible typosquatting)"))
          \o opt(f.suspicious_keywords > 2,
                 ReasonWith("Contains {} suspicious keywords", f.suspicious_keywords))
          \o opt(~Truthy(f.has_https), Reason("Does not use HTTPS"))
          \o opt(Truthy(f.has_https) /\ ~Truthy(f.has_valid_ssl),
                 Reason("HTTPS certificate is invalid"))
          \o opt(f.domain_age > 0 /\ f.domain_age < 30,
                 ReasonWith("Domain is very new ({} days old)", f.domain_age))
          \o opt(f.url_length > 75, Reason("URL is unusually long"))
          \o opt(Truthy(f.is_typosquatting), Reason("Shows typosquatting patterns"))
    IN  IF reasons = <<>> /\ score * 10 <= 5 * Scale
        THEN <<Reason(NoIndicators)>> ELSE reasons

\* _get_detection_reasons: the appended strings in source order; a message
\* that embeds a feature value carries it in arg; the url and score
\* parameters are never read
_get_detection_reasons(f, u, score) ==
    LET opt(c, r) == IF c THEN <<r>> ELSE <<>>
        reasons ==
             opt(Truthy(f.suspicious_tld), Reason("Uses suspicious top-level domain"))
          \o opt(Truthy(f.has_ip), Reason("Domain is an IP address"))
          \o opt(Truthy(f.is_shortened), Reason("Uses URL shortening service"))
          \o opt(Truthy(f.domain_in_subdomain),
                 Reason("Legitimate domain appears in subdomain (possible typosquatting)"))
          \o opt(f.suspicious_keywords > 2,
                 ReasonWith("Contains {} suspicious keywords", f.suspicious_keywords))
          \o opt(~Truthy(f.has_https), Reason("Does not use HTTPS"))
          \o opt(Truthy(f.has_https) /\ ~Truthy(f.has_valid_ssl),
                 Reason("HTTPS certificate is invalid"))
          \o opt(f.domain_age > 0 /\ f.domain_age < 30,
                 ReasonWith("Domain is very new ({} days old)", f.domain_age))
          \o opt(f.url_length > 75, Reason("URL is unusually long"))
          \o opt(Truthy(f.is_typosquatting), Reason("Shows typosquatting patterns"))
    IN  IF reasons = <<>> THEN <<Reason(NoIndicators)>> ELSE reasons

-----------------------------------------------------------------------------
(* The classifier artifact *)

\* What is stored at model_path.  A loadable classifier answers every
\* inference the same way: the step of the inference block that raises
\* ("predict", "proba", "confidence" for float(max(probabilities)), or "none"),
\* the label predict returns and the largest class probability.
ConfSamples == {0, 50, 51, 70, 71, 85, ConfScale}
Labels == {0, 1}

Classifiers ==
    [kind : {"model"}, fails : {"predict", "proba"}, label : {0}, conf : {0}]
      \cup [kind : {"model"}, fails : {"confidence"}, label : Labels, conf : {0}]
      \cup [kind : {"model"}, fails : {"none"}, label : Labels, conf : ConfSamples]

Artifacts ==
    [kind : {"missing", "unreadable", "falsy"}, fails : {"none"}, label : {0}, conf : {0}]
      \cup Classifiers

\* variant: ml_confidence pre-set to 0.0 instead of None
Inference_default(m, vector) ==
    CASE m.fails \in {"predict", "proba"} -> <<None, None>>
      [] m.fails = "confidence" -> <<Some(m.label), Some(0)>>
      [] OTHER -> <<Some(m.label), Some(m.conf)>>

\* the try block of detect (lines 53-60): <<ml_score, ml_confidence>>
Inference(m, vector) ==
    CASE m.fails \in {"predict", "proba"} -> <<None, None>>
      [] m.fails = "confidence" -> <<Some(m.label), None>>
      [] OTHER -> <<Some(m.label), Some(m.conf)>>

-----------------------------------------------------------------------------
(* The detector as a state machine *)

Init ==
    /\ pc = "new"
    /\ artifact \in Artifacts
    /\ whois_available \in BOOLEAN
    /\ model = None
    /\ url = <<>>
    /\ w = None
    /\ domain_age = 0
    /\ has_valid_ssl = 0
    /\ features = None
    /\ heuristic_score = 0
    /\ ml_score = None
    /\ ml_confidence = None
    /\ final_score = 0
    /\ threat_level = "SAFE"
    /\ result = None
    /\ error = None
    /\ prev = None
    /\ args = None
    /\ exit_code = None

\* PhishDetector.__init__ -> _load_model: a missing file leaves model None,
\* an exception while opening or unpickling is caught and leaves it None
_load_model ==
    /\ pc = "new"
    /\ model' = IF artifact.kind \in {"missing", "unreadable"}
                THEN None ELSE Some(artifact)
    /\ pc' = "ready"
    /\ UNCHANGED <<artifact, whois_available, url, w, domain_age, has_valid_ssl,
                   features, heuristic_score, ml_score, ml_confidence,
                   final_score, threat_level, result, error>>
    /\ UNCHANGED <<prev, args, exit_code>>

\* detect(u) up to the first probe: extract_features computes the lexical
\* features (or the first urlparse raises and the exception leaves detect),
\* then _get_domain_age returns 0 at once when WHOIS_AVAILABLE is false
detect_begin(u) ==
    /\ pc \in {"ready", "done", "raised"}
    /\ url' = u
    /\ w' = None
    /\ features' = None
    /\ heuristic_score' = 0
    /\ ml_score' = None
    /\ ml_confidence' = None
    /\ final_score' = 0
    /\ threat_level' = "SAFE"
    /\ result' = None
    /\ domain_age' = 0
    /\ has_valid_ssl' = 0
    /\ IF LexTable[u].raises
       THEN pc' = "raised" /\ error' = Some("ValueError")
       ELSE /\ error' = None
            /\ pc' = IF whois_available THEN "whois" ELSE "ssl"
    /\ UNCHANGED <<artifact, whois_available, model>>
    /\ UNCHANGED <<prev, args, exit_code>>

\* whois.whois(domain) returns or raises
whois_return(answer) ==
    /\ pc = "whois"
    /\ w' = Some(answer)
    /\ domain_age' = _get_domain_age(answer)
    /\ pc' = "ssl"
    /\ UNCHANGED <<artifact, whois_available, model, url, has_valid_ssl,
                   features, heuristic_score, ml_score, ml_confidence,
                   final_score, threat_level, result, error>>
    /\ UNCHANGED <<prev, args, exit_code>>

\* the connection or the handshake completes or fails
ssl_return(handshake_ok) ==
    /\ pc = "ssl"
    /\ has_valid_ssl' = _check_ssl_certificate(handshake_ok)
    /\ pc' = "dns"
    /\ UNCHANGED <<artifact, whois_available, model, url, w, domain_age,
                   features, heuristic_score, ml_score, ml_confidence,
                   final_score, threat_level, result, error>>
    /\ UNCHANGED <<prev, args, exit_code>>

\* the 3 s socket timeout of create_connection expires
ssl_timeout ==
    /\ pc = "ssl"
    /\ has_valid_ssl' = _check_ssl_certificate(FALSE)
    /\ pc' = "dns"
    /\ UNCHANGED <<artifact, whois_available, model, url, w, domain_age,
                   features, heuristic_score, ml_score, ml_confidence,
                   final_score, threat_level, result, error>>
    /\ UNCHANGED <<prev, args, exit_code>>

\* socket.gethostbyname(domain) returns or raises; extract_features then
\* finishes (typosquatting check, ratios) and returns the dict
dns_return(resolved) ==
    /\ pc = "dns"
    /\ features' = Some(extract_features(url, domain_age, has_valid_ssl,
                                         _get_dns_record_count(resolved)))
    /\ pc' = "extracted"
    /\ UNCHANGED <<artifact, whois_available, model, url, w, domain_age,
                   has_valid_ssl, heuristic_score, ml_score, ml_confidence,
                   final_score, threat_level, result, error>>
    /\ UNCHANGED <<prev, args, exit_code>>

\* the classifier part of detect (lines 50-60): <<ml_score, ml_confidence>>;
\* `if self.model` is false for None and for a falsy unpickled object
Classify(m, f) ==
    IF m # None /\ m[1].kind # "falsy"
    THEN Inference(m[1], _features_to_vector(f))
    ELSE <<None, None>>

\* detect, lines 46-81
detect_finish ==
    /\ pc = "extracted"
    /\ heuristic_score' = _heuristic_analysis(features[1], url)
    /\ ml_score' = Classify(model, features[1])[1]
    /\ ml_confidence' = Classify(model, features[1])[2]
    /\ final_score' = _combine_scores(heuristic_score', ml_score', ml_confidence')
    /\ threat_level' = _determine_threat_level(final_score')
    /\ result' = Some([url |-> url,
                       is_phishing |-> IsPhishing(final_score'),
                       confidence |-> final_score',
                       threat_level |-> threat_level',
                       heuristic_score |-> heuristic_score',
                       ml_score |-> ml_score',
                       ml_confidence |-> ml_confidence',
                       reasons |-> _get_detection_reasons(features[1], url, final_score'),
                       features |-> features[1]])
    /\ pc' = "done"
    /\ UNCHANGED <<artifact, whois_available, model, url, w, domain_age,
                   has_valid_ssl, features, error>>
    /\ UNCHANGED <<prev, args, exit_code>>

Next ==
    \/ _load_model
    \/ \E u \in Urls : detect_begin(u)
    \/ \E answer \in WhoisAnswers : whois_return(answer)
    \/ \E ok \in BOOLEAN : ssl_return(ok)
    \/ ssl_timeout
    \/ \E ok \in BOOLEAN : dns_return(ok)
    \/ detect_finish

Spec == Init /\ [][Next]_vars

-----------------------------------------------------------------------------
(* Liveness: the steps the program itself takes are fair, and so is the    *)
(* expiry of a timeout the code sets (only create_connection has one).     *)
(* Nothing obliges a remote side to answer.                                *)

LiveSpec ==
    /\ Spec
    /\ WF_vars(_load_model)
    /\ WF_vars(ssl_timeout)
    /\ WF_vars(detect_finish)

-----------------------------------------------------------------------------
(* Score fusion and threat level as pure functions: the inputs are drawn   *)
(* from grids of scores and verdicts, one step applies the functions.      *)

\* hundredths and twenty-eighths of the unit interval
HGrid == {k * (Scale \div 100) : k \in 0..100} \cup {k * (Scale \div 28) : k \in 0..28}
ConfGrid == {c \in 0..ConfScale : c % 5 = 0} \cup ConfSamples
Verdicts == {<<None, None>>} \cup {<<Some(l), Some(c)>> : l \in Labels, c \in ConfGrid}

FuseInit ==
    /\ pc = "fuse"
    /\ heuristic_score \in HGrid
    /\ \E v \in Verdicts : ml_score = v[1] /\ ml_confidence = v[2]
    /\ final_score = 0
    /\ threat_level = "SAFE"
    /\ artifact = [kind |-> "missing", fails |-> "none", label |-> 0, conf |-> 0]
    /\ whois_available = FALSE
    /\ model = None
    /\ url = <<>>
    /\ w = None
    /\ domain_age = 0
    /\ has_valid_ssl = 0
    /\ features = None
    /\ result = None
    /\ error = None
    /\ prev = None
    /\ args = None
    /\ exit_code = None

fuse_apply ==
    /\ pc = "fuse"
    /\ final_score' = _combine_scores(heuristic_score, ml_score, ml_confidence)
    /\ threat_level' = _determine_threat_level(final_score')
    /\ pc' = "fused"
    /\ UNCHANGED <<artifact, whois_available, model, url, w, domain_age,
                   has_valid_ssl, features, heuristic_score, ml_score,
                   ml_confidence, result, error>>
    /\ UNCHANGED <<prev, args, exit_code>>

FuseNext == fuse_apply

FusionSpec == FuseInit /\ [][FuseNext]_vars

-----------------------------------------------------------------------------
(* Two detections of one URL.  The caller keeps the dict the first call    *)
(* returned, then calls detect again on the same URL, either on the same   *)
(* detector or on a second detector built over another model file.  The    *)
(* network does not change in between: each probe of the second call gets  *)
(* the answer it got in the first.                                         *)

RepeatUrls ==
    {U_ip_login, U_google, U_plain_https, U_percent, U_unterminated, U_kitchen_sink}

\* model files the second detector is built over
RebuildArtifacts ==
    {a \in Artifacts : a.kind = "missing" \/ a.fails = "confidence"
                         \/ (a.fails = "none" /\ a.kind = "model" /\ a.conf = 85)}

\* the caller binds the returned dict; the probe answers of that call are
\* recorded with it
keep_result ==
    /\ pc = "done"
    /\ prev = None
    /\ prev' = Some([artifact |-> artifact,
                     url |-> url,
                     w |-> w,
                     has_valid_ssl |-> has_valid_ssl,
                     dns_record_count |-> features[1].dns_record_count,
                     result |-> result[1]])
    /\ pc' = "ready"
    /\ UNCHANGED <<artifact, whois_available, model, url, w, domain_age,
                   has_valid_ssl, features, heuristic_score, ml_score,
                   ml_confidence, final_score, threat_level, result, error>>
    /\ UNCHANGED <<args, exit_code>>

\* PhishDetector(model_path) once more, over another file
rebuild(a) ==
    /\ pc = "ready"
    /\ prev # None
    /\ artifact = prev[1].artifact
    /\ a # artifact
    /\ artifact' = a
    /\ model' = None
    /\ pc' = "new"
    /\ UNCHANGED <<whois_available, url, w, domain_age, has_valid_ssl,
                   features, heuristic_score, ml_score, ml_confidence,
                   final_score, threat_level, result, error>>
    /\ UNCHANGED <<prev, args, exit_code>>

\* in the second call a probe returns what it returned in the first
SameAnswer(field, value) == IF prev = None THEN TRUE ELSE prev[1][field] = value

RepeatNext ==
    \/ _load_model
    \/ \E u \in RepeatUrls :
          /\ pc = "ready"
          /\ SameAnswer("url", u)
          /\ detect_begin(u)
    \/ \E answer \in WhoisAnswers :
          SameAnswer("w", Some(answer)) /\ whois_return(answer)
    \/ \E ok \in BOOLEAN :
          SameAnswer("has_valid_ssl", _check_ssl_certificate(ok)) /\ ssl_return(ok)
    \/ SameAnswer("has_valid_ssl", _check_ssl_certificate(FALSE)) /\ ssl_timeout
    \/ \E ok \in BOOLEAN :
          SameAnswer("dns_record_count", _get_dns_record_count(ok)) /\ dns_return(ok)
    \/ detect_finish
    \/ keep_result
    \/ \E a \in RebuildArtifacts : rebuild(a)

RepeatSpec == Init /\ [][RepeatNext]_vars

-----------------------------------------------------------------------------
(* The command line front end: one run of main.  PhishDetector(...) and    *)
(* detect(args.url) are the steps above; what follows is the rest of the   *)
(* try block around detect and its handler.                                *)

\* the exceptions that can leave the try block, as <<class, exit status>>
SystemExit(code) == <<"SystemExit", code>>
Exception(class) == <<class, 2>>

\* variant: a bare except, which also catches SystemExit
Caught_bare(exc) == TRUE

\* `except Exception`: SystemExit derives from BaseException only
Caught(exc) == exc[1] # "SystemExit"

\* lines 101-103 and 123-125: under --verbose, in both output formats,
\* ml_confidence is rounded or formatted whenever ml_score is set
FormatRaises(res, a) ==
    a.verbose /\ res.ml_score # None /\ res.ml_confidence = None

\* what leaves the try block of lines 85-142: the exception detect raised,
\* the TypeError of formatting None, or the SystemExit of line 142
TryBody(res, err, a) ==
    IF err # None THEN Exception(err[1])
    ELSE IF FormatRaises(res[1], a) THEN Exception("TypeError")
    ELSE SystemExit(IF ~res[1].is_phishing THEN 0 ELSE 1)

\* lines 144-149: a caught exception ends in sys.exit(2), any other leaves
\* main, and the interpreter exits with the status SystemExit carries
main_exit(json, verbose) ==
    /\ pc \in {"done", "raised"}
    /\ args' = Some([json |-> json, verbose |-> verbose])
    /\ exit_code' = Some(IF Caught(TryBody(result, error, args'[1]))
                         THEN 2
                         ELSE TryBody(result, error, args'[1])[2])
    /\ pc' = "exited"
    /\ UNCHANGED <<artifact, whois_available, model, url, w, domain_age,
                   has_valid_ssl, features, heuristic_score, ml_score,
                   ml_confidence, final_score, threat_level, result, error>>
    /\ UNCHANGED prev

CliNext ==
    \/ _load_model
    \/ \E u \in Urls : pc = "ready" /\ detect_begin(u)
    \/ \E answer \in WhoisAnswers : whois_return(answer)
    \/ \E ok \in BOOLEAN : ssl_return(ok)
    \/ ssl_timeout
    \/ \E ok \in BOOLEAN : dns_return(ok)
    \/ detect_finish
    \/ \E json \in BOOLEAN, verbose \in BOOLEAN : main_exit(json, verbose)

CliSpec == Init /\ [][CliNext]_vars

-----------------------------------------------------------------------------
(* Properties *)

LevelRank(level) ==
    CASE level = "SAFE" -> 0 [] level = "LOW" -> 1 [] level = "MEDIUM" -> 2
      [] level = "HIGH" -> 3 [] level = "CRITICAL" -> 4

\* C1: in every result of detect, is_phishing holds exactly when the final
\* score is strictly above 0.5; a final score of exactly 0.5 is HIGH and not
\* phishing; phishing implies HIGH or CRITICAL; CRITICAL implies phishing.
C1_PhishingIffAboveHalf ==
    pc = "done" =>
        /\ result[1].is_phishing <=> (2 * result[1].confidence > Scale)
        /\ (2 * result[1].confidence = Scale) =>
              (result[1].threat_level = "HIGH" /\ ~result[1].is_phishing)
        /\ result[1].is_phishing => result[1].threat_level \in {"HIGH", "CRITICAL"}
        /\ result[1].threat_level = "CRITICAL" => result[1].is_phishing

\* a detection whose final score is exactly 0.5
C1_Witness ==
    /\ pc = "done"
    /\ 2 * result[1].confidence = Scale
    /\ result[1].threat_level = "HIGH"

\* C2: fusion follows the reference: the heuristic score itself without a
\* verdict; 0.3h + 0.7*label above confidence 0.7; 0.5h + 0.5*label for
\* confidence in (0.5, 0.7]; 0.7h + 0.3*label at or below 0.5; so 0.42 stays
\* 0.42, and label 1 at confidence 0.85 with h = 0.2 gives 0.76, CRITICAL.
C2_FusionMatchesReference ==
    pc = "fused" =>
        /\ ml_score = None => final_score = heuristic_score
        /\ (ml_score # None /\ 100 * ml_confidence[1] > 70 * ConfScale) =>
              10 * final_score = 3 * heuristic_score + 7 * Scale * ml_score[1]
        /\ (ml_score # None /\ 100 * ml_confidence[1] > 50 * ConfScale
                            /\ 100 * ml_confidence[1] <= 70 * ConfScale) =>
              10 * final_score = 5 * heuristic_score + 5 * Scale * ml_score[1]
        /\ (ml_score # None /\ 100 * ml_confidence[1] <= 50 * ConfScale) =>
              10 * final_score = 7 * heuristic_score + 3 * Scale * ml_score[1]
        /\ (ml_score = None /\ 100 * heuristic_score = 42 * Scale) =>
              100 * final_score = 42 * Scale
        /\ (ml_score = Some(1) /\ ml_confidence = Some(85)
                               /\ 10 * heuristic_score = 2 * Scale) =>
              (100 * final_score = 76 * Scale /\ threat_level = "CRITICAL")

\* the scenario of the claim: label 1, confidence 0.85, heuristic 0.2
C2_Witness ==
    /\ pc = "fused"
    /\ ml_score = Some(1)
    /\ ml_confidence = Some(85)
    /\ 10 * heuristic_score = 2 * Scale
    /\ 100 * final_score = 76 * Scale

\* C3: the threat level is decided by the final score alone, with boundaries
\* inclusive below (0.70, 0.50, 0.30, 0.15), and never decreases as the score
\* grows.
C3_ThreatLevelBoundariesMonotone ==
    pc = "fused" =>
        /\ threat_level =
              (IF 100 * final_score >= 70 * Scale THEN "CRITICAL"
               ELSE IF 100 * final_score >= 50 * Scale THEN "HIGH"
               ELSE IF 100 * final_score >= 30 * Scale THEN "MEDIUM"
               ELSE IF 100 * final_score >= 15 * Scale THEN "LOW"
               ELSE "SAFE")
        /\ \A s \in HGrid :
              /\ s <= final_score =>
                    LevelRank(_determine_threat_level(s)) <= LevelRank(threat_level)
              /\ s >= final_score =>
                    LevelRank(_determine_threat_level(s)) >= LevelRank(threat_level)

\* a final score exactly on the CRITICAL boundary
C3_Witness ==
    /\ pc = "fused"
    /\ 100 * final_score = 70 * Scale
    /\ threat_level = "CRITICAL"

NoPredicateFires(f) ==
    \A k \in DOMAIN HeuristicTable(f) : ~HeuristicTable(f)[k].fires

\* C4: the heuristic score of every extracted feature set lies in [0,1] and
\* is 0 when none of the eleven predicates is true.
C4_HeuristicScoreInUnitInterval ==
    pc = "done" =>
        /\ heuristic_score >= 0
        /\ heuristic_score <= Scale
        /\ NoPredicateFires(features[1]) => heuristic_score = 0

\* a detection in which no predicate fired
C4_Witness ==
    /\ pc = "done"
    /\ NoPredicateFires(features[1])
    /\ heuristic_score = 0

\* C5: the fused score lies in [0,1] and between the smaller and the larger
\* of the heuristic score and the label (the heuristic score itself without
\* a verdict).
C5_FusionIsConvex ==
    pc = "fused" =>
        /\ final_score >= 0
        /\ final_score <= Scale
        /\ ml_score = None => final_score = heuristic_score
        /\ ml_score # None =>
              /\ final_score >= Min(heuristic_score, Scale * ml_score[1])
              /\ final_score <= Max(heuristic_score, Scale * ml_score[1])

\* a blend strictly between label 0 and a positive heuristic score
C5_Witness ==
    /\ pc = "fused"
    /\ ml_score = Some(0)
    /\ heuristic_score > 0
    /\ final_score < heuristic_score
    /\ final_score > 0

\* C6: detect never raises: every URL, a malformed one included, gets a
\* feature set and a result.
C6_DetectNeverRaises == pc # "raised"

ClassifierFailed(a) ==
    \/ a.kind \in {"missing", "unreadable"}
    \/ a.kind = "model" /\ a.fails # "none"

\* C7: when loading the artifact or any step of the inference fails, detect
\* still returns a result, and its final score is the heuristic score.
C7_ClassifierFailureDegrades ==
    /\ (pc = "extracted" /\ ClassifierFailed(artifact)) => ENABLED detect_finish
    /\ (pc = "done" /\ ClassifierFailed(artifact)) =>
          /\ result # None
          /\ result[1].confidence = result[1].heuristic_score
          /\ error = None

\* the inference failed after the label was obtained
C7_Witness ==
    /\ pc = "done"
    /\ artifact.kind = "model"
    /\ artifact.fails = "confidence"
    /\ artifact.label = 1
    /\ result[1].ml_score = Some(1)
    /\ result[1].confidence = result[1].heuristic_score

\* C8: every probe is bounded by its own timeout, so a detection that has
\* started a probe completes even if the remote side never answers.
C8_DetectionCompletes == (pc \in {"whois", "ssl", "dns"}) ~> (pc = "done")

RatioFeatures == {"dots_to_length", "hyphens_to_length"}

NonNegative(name, v) ==
    IF name \in RatioFeatures THEN v[1] >= 0 /\ v[2] > 0 ELSE v >= 0

AgeUnknownOrNegative(answer) ==
    \/ answer.kind \in {"raises", "falsy"}
    \/ answer.first = None
    \/ answer.first[1] < 0

\* C9: the returned feature set has every name of the canonical list with a
\* value >= 0; domain_age is 0 when the age is unknown or negative; the two
\* ratios are 0 when the URL is empty.
C9_FeaturesCompleteNonNegative ==
    pc \in {"extracted", "done"} =>
        /\ Len(feature_order) = 29
        /\ \A i \in DOMAIN feature_order :
              /\ feature_order[i] \in DOMAIN features[1]
              /\ NonNegative(feature_order[i], features[1][feature_order[i]])
        /\ (w = None \/ AgeUnknownOrNegative(w[1])) => features[1].domain_age = 0
        /\ features[1].url_length = 0 =>
              /\ features[1].dots_to_length[1] = 0
              /\ features[1].hyphens_to_length[1] = 0

\* the lookup reported a creation date in the future
C9_Witness ==
    /\ pc = "extracted"
    /\ w = Some([kind |-> "datetime", first |-> Some(-1)])
    /\ features[1].domain_age = 0

\* the message of the reason generator for each predicate that has one
ReasonFor ==
    [suspicious_tld |-> "Uses suspicious top-level domain",
     has_ip |-> "Domain is an IP address",
     is_shortened |-> "Uses URL shortening service",
     domain_in_subdomain |->
        "Legitimate domain appears in subdomain (possible typosquatting)",
     suspicious_keywords |-> "Contains {} suspicious keywords",
     no_https |-> "Does not use HTTPS",
     invalid_ssl |-> "HTTPS certificate is invalid",
     new_domain |-> "Domain is very new ({} days old)",
     url_length |-> "URL is unusually long",
     is_typosquatting |-> "Shows typosquatting patterns"]

ReasonTexts(reasons) == {reasons[i].text : i \in DOMAIN reasons}

FiredIds(f) ==
    {HeuristicTable(f)[k].id : k \in {k \in DOMAIN HeuristicTable(f) : HeuristicTable(f)[k].fires}}

\* C10: every predicate that added weight to the heuristic score has its
\* reason in the list, and the single "no indicators" message is there
\* exactly when no predicate fired.
C10_ReasonsMatchPredicates ==
    pc = "done" =>
        /\ \A id \in FiredIds(result[1].features) :
              /\ id \in DOMAIN ReasonFor
              /\ ReasonFor[id] \in ReasonTexts(result[1].reasons)
        /\ (NoIndicators \in ReasonTexts(result[1].reasons))
              <=> (result[1].heuristic_score = 0)


\* C11: the reasons list does not depend on the classifier's verdict: two
\* detections over the same feature set, whatever their classifiers said,
\* return the same reasons in the same order.
C11_ReasonsIgnoreVerdict ==
    (pc = "done" /\ prev # None /\ prev[1].result.features = features[1])
        => result[1].reasons = prev[1].result.reasons

\* the same features, one detection flagged and the other not
C11_Witness ==
    /\ pc = "done"
    /\ prev # None
    /\ prev[1].result.features = features[1]
    /\ prev[1].result.ml_score # result[1].ml_score
    /\ prev[1].result.is_phishing # result[1].is_phishing
    /\ Len(result[1].reasons) > 1


\* C12: detect called twice on the same URL, on the same detector, with the
\* same probe answers and the same classifier, returns two identical
\* results: the first call leaves nothing behind that changes the second.
C12_DetectIsRepeatable ==
    (/\ pc = "done"
     /\ prev # None
     /\ prev[1].artifact = artifact
     /\ prev[1].url = url
     /\ prev[1].w = w
     /\ prev[1].has_valid_ssl = has_valid_ssl
     /\ prev[1].dns_record_count = features[1].dns_record_count)
        => result[1] = prev[1].result

\* a second detection on a detector with a working classifier, of a URL
\* whose first detection fired predicates
C12_Witness ==
    /\ pc = "done"
    /\ prev # None
    /\ prev[1].artifact = artifact
    /\ prev[1].url = url
    /\ prev[1].w = w
    /\ model # None
    /\ result[1].ml_confidence # None
    /\ result[1].heuristic_score > 0


\* C13: for http://192.168.1.1/login?verify=1 on a detector without a
\* classifier, whatever the probes answer: has_ip is 1, has_https is 0,
\* suspicious_keywords is at least 1, the heuristic score is above 0.3 and
\* the threat level is MEDIUM or higher.
C13_IpLoginIsAtLeastMedium ==
    (pc = "done" /\ url = U_ip_login /\ model = None)
        => /\ result[1].features.has_ip = 1
           /\ result[1].features.has_https = 0
           /\ result[1].features.suspicious_keywords >= 1
           /\ result[1].heuristic_score * 10 > 3 * Scale
           /\ LevelRank(result[1].threat_level) >= LevelRank("MEDIUM")

\* the scenario with the probes at their most favourable: the domain is
\* old, the handshake succeeded and the name resolved
C13_Witness ==
    /\ pc = "done"
    /\ url = U_ip_login
    /\ model = None
    /\ result[1].features.domain_age >= 30
    /\ result[1].features.has_valid_ssl = 1
    /\ result[1].features.dns_record_count = 1
    /\ result[1].threat_level = "MEDIUM"


\* C14: for https://www.google.com/ with the host resolving, a successful
\* TLS handshake, a domain that is not new and no classifier: the heuristic
\* score is near 0 (here: below the LOW threshold 0.15), the threat level is
\* SAFE or LOW, and the reasons are exactly the no-indicators message.
C14_GoogleHasNoIndicators ==
    (/\ pc = "done"
     /\ url = U_google
     /\ model = None
     /\ result[1].features.dns_record_count = 1
     /\ result[1].features.has_valid_ssl = 1
     /\ ~(result[1].features.domain_age > 0 /\ result[1].features.domain_age < 30))
        => /\ result[1].heuristic_score * 100 < 15 * Scale
           /\ result[1].threat_level \in {"SAFE", "LOW"}
           /\ result[1].reasons = <<Reason(NoIndicators)>>


\* C15: the exit status of the command line reflects the verdict: 0 when
\* detect returned is_phishing false, 1 when it returned true, 2 when detect
\* or the formatting of its result raised; the SystemExit that carries 0 or 1
\* is never turned into 2 by the handler around it.
C15_ExitCodeReflectsVerdict ==
    pc = "exited" =>
        IF error # None \/ FormatRaises(result[1], args[1])
        THEN exit_code = Some(2)
        ELSE exit_code = Some(IF result[1].is_phishing THEN 1 ELSE 0)

\* a run that flagged its URL and left through sys.exit(1) inside the try
C15_Witness ==
    /\ pc = "exited"
    /\ error = None
    /\ result[1].is_phishing
    /\ args[1].verbose
    /\ exit_code = Some(1)


\* the weight table as the specification states it, in hundredths
C16_StatedWeight(f) ==
      (IF f.url_length > 75 THEN 10 ELSE 0)
    + (IF f.suspicious_tld = 1 THEN 15 ELSE 0)
    + (IF f.has_ip = 1 THEN 20 ELSE 0)
    + (IF f.is_shortened = 1 THEN 10 ELSE 0)
    + (IF f.suspicious_keywords > 2 THEN 15 ELSE 0)
    + (IF f.domain_in_subdomain = 1 THEN 15 ELSE 0)
    + (IF f.has_https = 0 THEN 10 ELSE 0)
    + (IF f.has_https = 1 /\ f.has_valid_ssl = 0 THEN 15 ELSE 0)
    + (IF 0 < f.domain_age /\ f.domain_age < 30 THEN 10 ELSE 0)
    + (IF f.num_percent + f.num_at_symbols + f.num_hashes > 3 THEN 10 ELSE 0)
    + (IF f.is_typosquatting = 1 THEN 10 ELSE 0)

\* C16: the heuristic score is the sum of the weights of the predicates
\* that are true, by the stated weight table, divided by 1.40, the sum of
\* all eleven weights; the divisor is the same whichever predicates fire.
C16_HeuristicIsWeightedShare ==
    pc = "done" =>
        result[1].heuristic_score * 140 = C16_StatedWeight(result[1].features) * Scale

\* a result in which seven of the eleven predicates fired
C16_Witness ==
    /\ pc = "done"
    /\ C16_StatedWeight(result[1].features) > 100
    /\ result[1].heuristic_score > 0


\* the canonical feature list as the specification states it
C17_Canonical == <<
    "url_length", "hostname_length", "path_length", "query_length",
    "num_dots", "num_hyphens", "num_underscores", "num_slashes",
    "num_question_marks", "num_equals", "num_ampersands", "num_percent",
    "num_at_symbols", "has_https", "has_http", "domain_in_subdomain",
    "has_ip", "is_shortened", "suspicious_tld", "suspicious_keywords",
    "has_port", "num_params", "has_redirect", "domain_age",
    "has_valid_ssl", "dns_record_count", "is_typosquatting",
    "dots_to_length", "hyphens_to_length" >>

\* the feature set f with one name taken out
C17_Without(f, name) == [k \in DOMAIN f \ {name} |-> f[k]]

\* g lacks the i-th canonical name: both vectors hold 0 there
C17_Missing(g, i) ==
    /\ _features_to_vector(g)[i] = 0
    /\ feature_extractor_to_vector(g)[i] = 0

C17_VectorOf(f) ==
    /\ Len(_features_to_vector(f)) = 29
    /\ \A i \in 1..29 : _features_to_vector(f)[i] = f[C17_Canonical[i]]
    /\ _features_to_vector(f) = feature_extractor_to_vector(f)
    /\ \A i \in 1..29 : C17_Missing(C17_Without(f, C17_Canonical[i]), i)

\* C17: the classifier input vector has exactly 29 entries, entry i being
\* the value of the i-th canonical feature name (so the ten other names of
\* the feature set are ignored), a missing name gives 0, and the vector is
\* entry for entry the one the training pipeline builds from the same
\* feature set.
C17_VectorMatchesTraining ==
    pc = "extracted" => C17_VectorOf(features[1])

\* a feature set with names outside the canonical list and nonzero entries,
\* handed to a loaded classifier
C17_Witness ==
    /\ pc = "extracted"
    /\ model # None
    /\ model[1].kind = "model"
    /\ DOMAIN features[1] \ Range(C17_Canonical) # {}
    /\ _features_to_vector(features[1])[14] = 1
    /\ _features_to_vector(features[1])[24] > 0


\* the host of the submitted URL, lower-cased
C18_Host == lower(LexTable[url].domain)

\* C18: is_shortened is 1 exactly when the host of the URL is one of the
\* known URL-shortening domains; any other host gets is_shortened = 0, does
\* not receive the shortened-URL weight and does not get the reason
\* "Uses URL shortening service".
C18_ShortenedIffKnownHost ==
    pc = "done" =>
        /\ result[1].features.is_shortened = 1 <=> C18_Host \in Range(shortening_services)
        /\ C18_Host \notin Range(shortening_services) =>
              /\ "is_shortened" \notin FiredIds(result[1].features)
              /\ Reason("Uses URL shortening service") \notin Range(result[1].reasons)


\* C19: in every result of detect the classifier verdict is wholly present
\* or wholly absent: ml_score is None exactly when ml_confidence is None,
\* also when the model file is missing and when inference raises after the
\* label was obtained and before the confidence was computed.
C19_VerdictWhollyPresentOrAbsent ==
    pc = "done" =>
        (result[1].ml_score = None <=> result[1].ml_confidence = None)


\* score and max_score of the table, in hundredths
C20_Accumulated(f) == SumWeights(HeuristicTable(f), TRUE)
C20_Total(f) == SumWeights(HeuristicTable(f), FALSE)

\* C20: the predicates "no HTTPS" and "invalid certificate" never both fire
\* for one feature set, so the accumulated weight is at most 1.30 of the
\* 1.40 total, the heuristic score is strictly below 1.0, and the clamp
\* min(..., 1.0) of _heuristic_analysis never changes the quotient.
C20_ClampNeverActs ==
    pc = "done" =>
        /\ ~({"no_https", "invalid_ssl"} \subseteq FiredIds(result[1].features))
        /\ C20_Accumulated(result[1].features) <= 130
        /\ C20_Total(result[1].features) = 140
        /\ result[1].heuristic_score < Scale
        /\ result[1].heuristic_score
              = (C20_Accumulated(result[1].features) * Scale)
                    \div C20_Total(result[1].features)

\* a plain-http URL whose handshake failed: the first of the two predicates
\* fires, the second does not
C20_Witness ==
    /\ pc = "done"
    /\ result[1].features.has_https = 0
    /\ result[1].features.has_valid_ssl = 0
    /\ "no_https" \in FiredIds(result[1].features)
    /\ "invalid_ssl" \notin FiredIds(result[1].features)
    /\ C20_Accumulated(result[1].features) > 100

====
